---- MODULE Spec2Model ----
(***************************************************************************)
(* Model of datalad/distribution/drop.py: the generator Drop.__call__ and  *)
(* its helper generator _drop_files, driven by a pull-based consumer.      *)
(*                                                                         *)
(* A path is a sequence of components; an absolute path starts with "/".   *)
(* The empty sequence stands for None.                                     *)
(***************************************************************************)
EXTENDS Naturals, Sequences, FiniteSets

VARIABLES
    req,                \* arguments of Drop.__call__
    fileState,          \* content store: file -> "absent" | "safe" | "last"
    dirty,              \* datasets with uncommitted changes
    annexed,            \* datasets whose repo has a drop method
    pc,                 \* position of Drop.__call__
    dpc,                \* position of _drop_files
    running,            \* TRUE while the consumer waits in next()
    content_by_ds,      \* local of Drop.__call__
    unavailable_paths,  \* local of Drop.__call__, the part not yet yielded
    todo,               \* keys of content_by_ds not yet iterated
    call,               \* arguments of the current _drop_files call
    results,            \* what ds.repo.drop returned, the part not yet consumed
    respath_by_status,  \* local of _drop_files
    i,                  \* index into call.paths of the current loop
    events,             \* history: pulls, guard calls, store calls, yields
    run,                \* number of the current top-level call
    prev                \* history of the previous top-level call

vars == <<req, fileState, dirty, annexed, pc, dpc, running, content_by_ds,
          unavailable_paths, todo, call, results, respath_by_status, i,
          events, run, prev>>

(***************************************************************************)
(* Bounds                                                                  *)
(***************************************************************************)
MaxReq == 2

MaxExecPaths == 2

MaxRuns == 2

(***************************************************************************)
(* The file system the runs act on                                         *)
(***************************************************************************)
None == <<>>

TopDs == <<"/", "ds">>

SubDs == <<"/", "ds", "sub">>

DeepDs == <<"/", "ds", "sub", "deep">>

Datasets == {TopDs, SubDs, DeepDs}

FileA == <<"/", "ds", "a.dat">>

SubDir == <<"/", "ds", "subdir">>

FileB == <<"/", "ds", "subdir", "b.dat">>

FileC == <<"/", "ds", "sub", "c.dat">>

FileD == <<"/", "ds", "sub", "deep", "d.dat">>

Missing1 == <<"/", "ds", "missing.txt">>

Missing2 == <<"/", "ds", "gone.txt">>

Files == {FileA, FileB, FileC, FileD}

Dirs == {TopDs, SubDir, SubDs, DeepDs}

\* a fixed enumeration of the paths, used where the code iterates a list
PathOrder == <<Missing1, Missing2, TopDs, FileA, SubDir, FileB, SubDs, FileC,
               DeepDs, FileD>>

lexists(p) == p \in Files \cup Dirs

isdir(p) == p \in Dirs

IsPrefix(d, p) == Len(d) <= Len(p) /\ SubSeq(p, 1, Len(d)) = d

ToSeq(S) == SelectSeq(PathOrder, LAMBDA p : p \in S)

Range(s) == {s[k] : k \in 1..Len(s)}

(***************************************************************************)
(* os.path                                                                 *)
(***************************************************************************)
isabs(p) == Len(p) > 0 /\ p[1] = "/"

opj(a, b) == IF isabs(b) THEN b ELSE a \o b

normpath(p) == SelectSeq(p, LAMBDA c : c # ".")

\* drop.py:85, the path of a result
ResultPath(dspath, p) == IF isabs(p) THEN p ELSE normpath(opj(dspath, p))

(***************************************************************************)
(* Path Grouper: Interface._prep                                           *)
(***************************************************************************)
\* the nearest dataset containing p
DsOf(p) ==
    CHOOSE d \in Datasets :
        /\ IsPrefix(d, p)
        /\ \A e \in Datasets : IsPrefix(e, p) => Len(e) <= Len(d)

\* number of dataset boundaries crossed going from dataset d down to dataset s
Levels(d, s) ==
    Cardinality({e \in Datasets : IsPrefix(d, e) /\ e # d /\ IsPrefix(e, s)})

WithinLimit(limit, n) == limit = None \/ n <= limit[1]

\* datasets below the existing requested directory p that recursion reaches
Reached(p, recursive, limit) ==
    {s \in Datasets :
        /\ recursive
        /\ isdir(p)
        /\ IsPrefix(p, s) /\ s # p
        /\ WithinLimit(limit, Levels(DsOf(p), s))}

GroupOf(d, path, recursive, limit) ==
    {p \in path : lexists(p) /\ DsOf(p) = d}
        \cup {s \in {d} : \E p \in path :
                              lexists(p) /\ s \in Reached(p, recursive, limit)}

Prep_content_by_ds(path, recursive, limit) ==
    [d \in {e \in Datasets : GroupOf(e, path, recursive, limit) # {}} |->
        ToSeq(GroupOf(d, path, recursive, limit))]

Prep_unavailable_paths(path) == ToSeq({p \in path : ~lexists(p)})

(***************************************************************************)
(* Cleanliness Guard: handle_dirty_datasets                                *)
(***************************************************************************)
GuardFails(keys, mode, dirtyNow) == mode = "fail" /\ keys \cap dirtyNow # {}

GuardAfter(keys, mode, dirtyNow) ==
    IF mode = "save-before" THEN dirtyNow \ keys ELSE dirtyNow

(***************************************************************************)
(* Content store: ds.repo.drop                                             *)
(***************************************************************************)
\* mutant: the test for an annex the wrong way round
HasDropInverted(ds) == ds \notin annexed

HasDrop(ds) == ds \in annexed

RelTo(ds, f) == SubSeq(f, Len(ds) + 1, Len(f))

\* the files of dataset ds that the paths name or contain
Covered(ds, paths) ==
    {f \in Files :
        /\ DsOf(f) = ds
        /\ \E k \in 1..Len(paths) : IsPrefix(ResultPath(ds, paths[k]), f)}

CanDrop(f, options, fs) ==
    fs[f] = "safe" \/ (fs[f] = "last" /\ "--force" \in Range(options))

\* the store speaks about the files that have local content, and only those
Spoken(ds, paths, fs) == ToSeq({f \in Covered(ds, paths) : fs[f] # "absent"})

RepoDrop(ds, paths, options, fs) ==
    [k \in 1..Len(Spoken(ds, paths, fs)) |->
        [file |-> RelTo(ds, Spoken(ds, paths, fs)[k]),
         success |-> CanDrop(Spoken(ds, paths, fs)[k], options, fs)]]

\* the files a call reports as dropped
RepoDropped(ds, paths, options, fs) ==
    {f \in Covered(ds, paths) : fs[f] # "absent" /\ CanDrop(f, options, fs)}

\* mutant: the store reports a drop and keeps the content
RepoAfterDropKeeps(ds, paths, options, fs) == fs

RepoAfterDrop(ds, paths, options, fs) ==
    [f \in Files |->
        IF f \in Covered(ds, paths) /\ CanDrop(f, options, fs)
        THEN "absent" ELSE fs[f]]

(***************************************************************************)
(* datalad.interface.results                                               *)
(***************************************************************************)
get_status_dict(path, status, message, type, refds) ==
    [path |-> path, status |-> status, message |-> message, type |-> type,
     action |-> "drop", refds |-> refds]

annexjson2result(res, ds, refds) ==
    get_status_dict(normpath(opj(ds, res.file)),
                    IF res.success THEN "ok" ELSE "error",
                    IF res.success THEN <<>> ELSE <<"could not drop">>,
                    "file", refds)

success_status_map(status) ==
    IF status \in {"ok", "notneeded"} THEN "success" ELSE "failure"

\* results_from_paths
PathResult(p, status, message, refds) ==
    get_status_dict(p, status, <<message, p>>, "", refds)

Reported(rbs, p) == \E key \in DOMAIN rbs : p \in Range(rbs[key])

\* results_from_annex_noinfo: the record for a path annex was silent about
NoinfoResult(ds, p, dir_fail_msg, noinfo_dir_msg, noinfo_file_msg, fs, refds) ==
    IF isdir(p)
    THEN get_status_dict(p, "impossible", <<dir_fail_msg, ds, p>>,
                         "directory", refds)
    ELSE get_status_dict(p, "notneeded",
                         IF p \in Files /\ fs[p] = "absent"
                         THEN <<noinfo_dir_msg, p>> ELSE <<noinfo_file_msg>>,
                         "file", refds)

\* results_from_annex_noinfo: the first requested path from index k on that
\* annex was silent about, Len(paths) + 1 if there is none
NextNoinfo(ds, paths, rbs, k) ==
    IF \E n \in k..Len(paths) : ~Reported(rbs, ResultPath(ds, paths[n]))
    THEN CHOOSE n \in k..Len(paths) :
            /\ ~Reported(rbs, ResultPath(ds, paths[n]))
            /\ \A m \in k..(n - 1) : Reported(rbs, ResultPath(ds, paths[m]))
    ELSE Len(paths) + 1

(***************************************************************************)
(* drop.py                                                                 *)
(***************************************************************************)
\* mutant: an unavailable path reported as dropped
UnavailableStatusOk == "ok"

\* drop.py:179
UnavailableStatus == "notneeded"

\* mutant: the message does not take the path
UnavailableMessageNoPath == "path does not exist"

\* drop.py:180
UnavailableMessage == "path does not exist: %s"

\* mutant: the two statuses the wrong way round
NoAnnexStatusInverted(noannex_iserror) ==
    IF noannex_iserror THEN "notneeded" ELSE "impossible"

\* drop.py:84
NoAnnexStatus(noannex_iserror) ==
    IF noannex_iserror THEN "impossible" ELSE "notneeded"

\* drop.py:86
NoAnnexMessage == "no annex'ed content"

\* mutant: the test of check the wrong way round
OptsInverted(check) == IF check THEN <<"--force">> ELSE <<>>

\* drop.py:90
Opts(check) == IF ~check THEN <<"--force">> ELSE <<>>

\* mutant: the message for a directory is the one for a path with nothing
\* to drop
dir_fail_msg_nothing == "nothing to drop from %s"

\* drop.py:103-105
dir_fail_msg == "could not drop some content in %s %s"

noinfo_dir_msg == "nothing to drop from %s"

noinfo_file_msg == "no annex'ed content"

\* mutant: the path of a result is not remembered
AccumulateForgets(rbs, success, path) == rbs

\* drop.py:97-98
Accumulate(rbs, success, path) ==
    [key \in DOMAIN rbs \cup {success} |->
        (IF key \in DOMAIN rbs THEN rbs[key] ELSE <<>>)
            \o (IF key = success THEN <<path>> ELSE <<>>)]

\* drop.py:174
Refds == req.dataset

\* mutant: the datasets are dropped before the dirty check
ProgramGuardLast == <<"unavail", "datasets", "guard">>

\* mutant: the dirty check comes before the unavailable paths are reported
ProgramGuardFirst == <<"guard", "unavail", "datasets">>

\* mutant: the unavailable paths are reported at the end
ProgramUnavailableLast == <<"guard", "datasets", "unavail">>

\* the statements of Drop.__call__ after _prep, in the order of the source:
\* the loop over unavailable_paths (176-182), handle_dirty_datasets (185-186),
\* the loop over content_by_ds (189-193)
Program == <<"unavail", "guard", "datasets">>

After(phase) ==
    IF \E k \in 1..(Len(Program) - 1) : Program[k] = phase
    THEN Program[(CHOOSE k \in 1..(Len(Program) - 1) : Program[k] = phase) + 1]
    ELSE "done"

Terminal == {"done", "aborted", "closed"}

(***************************************************************************)
(* History                                                                 *)
(***************************************************************************)
NoRec == get_status_dict(None, "", <<>>, "", None)

\* keys: the argument of a guard call; paths, opts: the arguments of a store
\* call, dropped: the files it reported as dropped; rec: a yielded record,
\* kind: the statement that yielded it
Event(ev, ds, keys, paths, options, dropped, rec, kind) ==
    [ev |-> ev, ds |-> ds, keys |-> keys, paths |-> paths, opts |-> options,
     dropped |-> dropped, rec |-> rec, kind |-> kind]

PullEvent == Event("pull", None, {}, <<>>, <<>>, {}, NoRec, "")

GuardEvent(keys) == Event("guard", None, keys, <<>>, <<>>, {}, NoRec, "")

DropEvent(ds, paths, options, dropped) ==
    Event("drop", ds, {}, paths, options, dropped, NoRec, "")

YieldEvent(ds, rec, kind) ==
    Event("yield", ds, {}, <<>>, <<>>, {}, rec, kind)

NoCall == [ds |-> None, paths |-> <<>>, check |-> TRUE,
           noannex_iserror |-> FALSE]

\* a generator yields: the record goes to the consumer, which resumes
Yield(ds, rec, kind) ==
    /\ events' = Append(events, YieldEvent(ds, rec, kind))
    /\ running' = FALSE

\* a statement of Drop.__call__ is finished; falling off the end of the
\* function ends the stream
Advance(phase) ==
    /\ pc' = After(phase)
    /\ running' = (After(phase) # "done")

(***************************************************************************)
(* The consumer                                                            *)
(***************************************************************************)
\* next() on the generator
Pull ==
    /\ ~running
    /\ pc \notin Terminal
    /\ running' = TRUE
    /\ events' = Append(events, PullEvent)
    /\ UNCHANGED <<req, fileState, dirty, annexed, pc, dpc, content_by_ds,
                   unavailable_paths, todo, call, results, respath_by_status,
                   i, run, prev>>

\* the consumer stops consuming: the suspended generator is closed
Close ==
    /\ ~running
    /\ pc \notin Terminal
    /\ pc' = "closed"
    /\ UNCHANGED <<req, fileState, dirty, annexed, dpc, running, content_by_ds,
                   unavailable_paths, todo, call, results, respath_by_status,
                   i, events, run, prev>>

(***************************************************************************)
(* Drop.__call__                                                           *)
(***************************************************************************)
\* drop.py:166-168
EffectivePath ==
    IF req.dataset # None /\ req.path = {} THEN {req.dataset} ELSE req.path

\* mutant: the recursion limit of the request is not handed to the grouper
PrepIgnoresLimit ==
    /\ running
    /\ pc = "prep"
    /\ content_by_ds' = Prep_content_by_ds(EffectivePath, req.recursive, None)
    /\ unavailable_paths' = Prep_unavailable_paths(EffectivePath)
    /\ todo' = DOMAIN content_by_ds'
    /\ pc' = Program[1]
    /\ UNCHANGED <<req, fileState, dirty, annexed, dpc, running, call, results,
                   respath_by_status, i, events, run, prev>>

\* drop.py:166-175
Prep ==
    /\ running
    /\ pc = "prep"
    /\ content_by_ds' =
           Prep_content_by_ds(EffectivePath, req.recursive, req.recursion_limit)
    /\ unavailable_paths' = Prep_unavailable_paths(EffectivePath)
    /\ todo' = DOMAIN content_by_ds'
    /\ pc' = Program[1]
    /\ UNCHANGED <<req, fileState, dirty, annexed, dpc, running, call, results,
                   respath_by_status, i, events, run, prev>>

\* drop.py:176-182, one iteration
YieldUnavailable ==
    /\ running
    /\ pc = "unavail"
    /\ unavailable_paths # <<>>
    /\ Yield(None,
             PathResult(Head(unavailable_paths), UnavailableStatus,
                        UnavailableMessage, Refds),
             "unavailable")
    /\ unavailable_paths' = Tail(unavailable_paths)
    /\ UNCHANGED <<req, fileState, dirty, annexed, pc, dpc, content_by_ds, todo,
                   call, results, respath_by_status, i, run, prev>>

\* drop.py:176, the loop is exhausted
UnavailableEnd ==
    /\ running
    /\ pc = "unavail"
    /\ unavailable_paths = <<>>
    /\ Advance("unavail")
    /\ UNCHANGED <<req, fileState, dirty, annexed, dpc, content_by_ds,
                   unavailable_paths, todo, call, results, respath_by_status,
                   i, events, run, prev>>

\* mutant: the failure of handle_dirty_datasets is swallowed
HandleDirtySwallowed ==
    /\ running
    /\ pc = "guard"
    /\ events' = Append(events, GuardEvent(DOMAIN content_by_ds))
    /\ Advance("guard")
    /\ dirty' = GuardAfter(DOMAIN content_by_ds, req.if_dirty, dirty)
    /\ UNCHANGED <<req, fileState, annexed, dpc, content_by_ds,
                   unavailable_paths, todo, call, results, respath_by_status,
                   i, run, prev>>

\* drop.py:185-186
HandleDirty ==
    /\ running
    /\ pc = "guard"
    /\ events' = Append(events, GuardEvent(DOMAIN content_by_ds))
    /\ IF GuardFails(DOMAIN content_by_ds, req.if_dirty, dirty)
       THEN /\ pc' = "aborted"
            /\ running' = FALSE
            /\ dirty' = dirty
       ELSE /\ Advance("guard")
            /\ dirty' = GuardAfter(DOMAIN content_by_ds, req.if_dirty, dirty)
    /\ UNCHANGED <<req, fileState, annexed, dpc, content_by_ds,
                   unavailable_paths, todo, call, results, respath_by_status,
                   i, run, prev>>

\* mutant: _drop_files is called with noannex_iserror set
NextDatasetStrict ==
    /\ running
    /\ pc = "datasets"
    /\ dpc = "idle"
    /\ \E ds_path \in todo :
        /\ call' = [ds |-> ds_path, paths |-> content_by_ds[ds_path],
                    check |-> req.check, noannex_iserror |-> TRUE]
        /\ todo' = todo \ {ds_path}
    /\ dpc' = "enter"
    /\ i' = 1
    /\ UNCHANGED <<req, fileState, dirty, annexed, pc, running, content_by_ds,
                   unavailable_paths, results, respath_by_status, events, run,
                   prev>>

\* drop.py:189-192, the next key of content_by_ds
NextDataset ==
    /\ running
    /\ pc = "datasets"
    /\ dpc = "idle"
    /\ \E ds_path \in todo :
        /\ call' = [ds |-> ds_path, paths |-> content_by_ds[ds_path],
                    check |-> req.check, noannex_iserror |-> FALSE]
        /\ todo' = todo \ {ds_path}
    /\ dpc' = "enter"
    /\ i' = 1
    /\ UNCHANGED <<req, fileState, dirty, annexed, pc, running, content_by_ds,
                   unavailable_paths, results, respath_by_status, events, run,
                   prev>>

\* mutant: the datasets are saved after the last one was dropped
DatasetsEndSaves ==
    /\ running
    /\ pc = "datasets"
    /\ dpc = "idle"
    /\ todo = {}
    /\ Advance("datasets")
    /\ dirty' = dirty \ DOMAIN content_by_ds
    /\ UNCHANGED <<req, fileState, annexed, dpc, content_by_ds,
                   unavailable_paths, todo, call, results, respath_by_status,
                   i, events, run, prev>>

\* drop.py:189, the loop is exhausted
DatasetsEnd ==
    /\ running
    /\ pc = "datasets"
    /\ dpc = "idle"
    /\ todo = {}
    /\ Advance("datasets")
    /\ UNCHANGED <<req, fileState, dirty, annexed, dpc, content_by_ds,
                   unavailable_paths, todo, call, results, respath_by_status,
                   i, events, run, prev>>

(***************************************************************************)
(* _drop_files                                                             *)
(***************************************************************************)
\* drop.py:81-87, one iteration
NoAnnexYield ==
    /\ running
    /\ dpc \in {"enter", "noannex"}
    /\ ~HasDrop(call.ds)
    /\ i <= Len(call.paths)
    /\ Yield(call.ds,
             get_status_dict(ResultPath(call.ds, call.paths[i]),
                             NoAnnexStatus(call.noannex_iserror),
                             <<NoAnnexMessage>>, "", Refds),
             "noannex")
    /\ i' = i + 1
    /\ dpc' = "noannex"
    /\ UNCHANGED <<req, fileState, dirty, annexed, pc, content_by_ds,
                   unavailable_paths, todo, call, results, respath_by_status,
                   run, prev>>

\* drop.py:88
NoAnnexReturn ==
    /\ running
    /\ dpc \in {"enter", "noannex"}
    /\ ~HasDrop(call.ds)
    /\ i > Len(call.paths)
    /\ dpc' = "idle"
    /\ UNCHANGED <<req, fileState, dirty, annexed, pc, running, content_by_ds,
                   unavailable_paths, todo, call, results, respath_by_status,
                   i, events, run, prev>>

\* mutant: the store is called on the paths of every dataset still to come
StoreDropAhead ==
    /\ running
    /\ dpc = "enter"
    /\ HasDrop(call.ds)
    /\ results' = RepoDrop(call.ds, call.paths, Opts(call.check), fileState)
    /\ fileState' =
           [f \in Files |->
               IF DsOf(f) \in todo /\ HasDrop(DsOf(f))
               THEN RepoAfterDrop(DsOf(f), content_by_ds[DsOf(f)],
                                  Opts(call.check), fileState)[f]
               ELSE RepoAfterDrop(call.ds, call.paths, Opts(call.check),
                                  fileState)[f]]
    /\ respath_by_status' = <<>>
    /\ events' = Append(events,
                        DropEvent(call.ds, call.paths, Opts(call.check),
                                  RepoDropped(call.ds, call.paths,
                                              Opts(call.check), fileState)))
    /\ dpc' = "store"
    /\ UNCHANGED <<req, dirty, annexed, pc, running, content_by_ds,
                   unavailable_paths, todo, call, i, run, prev>>

\* drop.py:90-92, the call of ds.repo.drop
StoreDrop ==
    /\ running
    /\ dpc = "enter"
    /\ HasDrop(call.ds)
    /\ results' = RepoDrop(call.ds, call.paths, Opts(call.check), fileState)
    /\ fileState' =
           RepoAfterDrop(call.ds, call.paths, Opts(call.check), fileState)
    /\ respath_by_status' = <<>>
    /\ events' = Append(events,
                        DropEvent(call.ds, call.paths, Opts(call.check),
                                  RepoDropped(call.ds, call.paths,
                                              Opts(call.check), fileState)))
    /\ dpc' = "store"
    /\ UNCHANGED <<req, dirty, annexed, pc, running, content_by_ds,
                   unavailable_paths, todo, call, i, run, prev>>

\* mutant: a failure reported by the store is raised instead of yielded
YieldStoreResultRaises ==
    /\ running
    /\ dpc = "store"
    /\ results # <<>>
    /\ LET res == annexjson2result(Head(results), call.ds, Refds)
       IN  IF res.status = "error"
           THEN /\ pc' = "aborted"
                /\ running' = FALSE
                /\ UNCHANGED <<respath_by_status, events>>
           ELSE /\ respath_by_status' =
                       Accumulate(respath_by_status,
                                  success_status_map(res.status), res.path)
                /\ Yield(call.ds, res, "store")
                /\ pc' = pc
    /\ results' = Tail(results)
    /\ UNCHANGED <<req, fileState, dirty, annexed, dpc, content_by_ds,
                   unavailable_paths, todo, call, i, run, prev>>

\* drop.py:92-99, one iteration
YieldStoreResult ==
    /\ running
    /\ dpc = "store"
    /\ results # <<>>
    /\ LET res == annexjson2result(Head(results), call.ds, Refds)
       IN  /\ respath_by_status' =
                  Accumulate(respath_by_status,
                             success_status_map(res.status), res.path)
           /\ Yield(call.ds, res, "store")
    /\ results' = Tail(results)
    /\ UNCHANGED <<req, fileState, dirty, annexed, pc, dpc, content_by_ds,
                   unavailable_paths, todo, call, i, run, prev>>

\* mutant: the reconciler does not wait for the store's last result
NoinfoYieldEarly ==
    /\ running
    /\ dpc \in {"store", "noinfo"}
    /\ LET n == NextNoinfo(call.ds, call.paths, respath_by_status, i)
       IN  /\ n <= Len(call.paths)
           /\ Yield(call.ds,
                    NoinfoResult(call.ds, ResultPath(call.ds, call.paths[n]),
                                 dir_fail_msg, noinfo_dir_msg, noinfo_file_msg,
                                 fileState, Refds),
                    "noinfo")
           /\ i' = n + 1
    /\ dpc' = dpc
    /\ UNCHANGED <<req, fileState, dirty, annexed, pc, content_by_ds,
                   unavailable_paths, todo, call, results, respath_by_status,
                   run, prev>>

\* drop.py:101-107, up to the next yield
NoinfoYield ==
    /\ running
    /\ dpc \in {"store", "noinfo"}
    /\ results = <<>>
    /\ LET n == NextNoinfo(call.ds, call.paths, respath_by_status, i)
       IN  /\ n <= Len(call.paths)
           /\ Yield(call.ds,
                    NoinfoResult(call.ds, ResultPath(call.ds, call.paths[n]),
                                 dir_fail_msg, noinfo_dir_msg, noinfo_file_msg,
                                 fileState, Refds),
                    "noinfo")
           /\ i' = n + 1
    /\ dpc' = "noinfo"
    /\ UNCHANGED <<req, fileState, dirty, annexed, pc, content_by_ds,
                   unavailable_paths, todo, call, results, respath_by_status,
                   run, prev>>

\* drop.py:101-107, the loop is exhausted and the function returns
DropFilesReturn ==
    /\ running
    /\ dpc \in {"store", "noinfo"}
    /\ results = <<>>
    /\ NextNoinfo(call.ds, call.paths, respath_by_status, i) > Len(call.paths)
    /\ dpc' = "idle"
    /\ UNCHANGED <<req, fileState, dirty, annexed, pc, running, content_by_ds,
                   unavailable_paths, todo, call, results, respath_by_status,
                   i, events, run, prev>>

(***************************************************************************)
(* Specification: one top-level call                                       *)
(***************************************************************************)
ReqPaths == {Missing1, Missing2, TopDs, FileA, SubDir, SubDs, FileC}

Requests ==
    {r \in [path : {S \in SUBSET ReqPaths : Cardinality(S) <= MaxReq},
            dataset : {TopDs},
            recursive : BOOLEAN,
            recursion_limit : {None, <<0>>, <<1>>},
            check : BOOLEAN,
            if_dirty : {"save-before", "ignore", "fail"}] :
        r.recursive \/ r.recursion_limit = None}

\* "safe": local content with enough remote copies; "last": local content
\* that is the only copy; "absent": no local content
FileStates ==
    {fs \in [Files -> {"absent", "safe", "last"}] :
        fs[FileB] # "absent" /\ fs[FileC] = "safe" /\ fs[FileD] = "safe"}

DirtySets == {{}, {SubDs}}

AnnexedSets == {Datasets, Datasets \ {SubDs}}

Fresh ==
    /\ pc = "prep"
    /\ dpc = "idle"
    /\ running = FALSE
    /\ content_by_ds = <<>>
    /\ unavailable_paths = <<>>
    /\ todo = {}
    /\ call = NoCall
    /\ results = <<>>
    /\ respath_by_status = <<>>
    /\ i = 1
    /\ events = <<>>

\* with nothing dirty the three values of if_dirty behave alike: only the
\* default of drop.py:164 is run then
Init ==
    /\ req \in Requests
    /\ fileState \in FileStates
    /\ dirty \in DirtySets
    /\ dirty = {} => req.if_dirty = "save-before"
    /\ annexed \in AnnexedSets
    /\ Fresh
    /\ run = 1
    /\ prev = <<>>

Next ==
    \/ Pull
    \/ Close
    \/ Prep
    \/ YieldUnavailable
    \/ UnavailableEnd
    \/ HandleDirty
    \/ NextDataset
    \/ DatasetsEnd
    \/ NoAnnexYield
    \/ NoAnnexReturn
    \/ StoreDrop
    \/ YieldStoreResult
    \/ NoinfoYield
    \/ DropFilesReturn

Spec == Init /\ [][Next]_vars

(***************************************************************************)
(* Specification: the Drop Executor called on its own                      *)
(***************************************************************************)
ExecPaths == {FileA, <<"a.dat">>, <<".", "subdir">>, SubDir, FileC, <<"c.dat">>}

ExecCalls ==
    [ds : {TopDs, SubDs},
     paths : UNION {[1..n -> ExecPaths] : n \in 0..MaxExecPaths},
     check : BOOLEAN,
     noannex_iserror : BOOLEAN]

ExecReq ==
    [path |-> {}, dataset |-> TopDs, recursive |-> FALSE,
     recursion_limit |-> None, check |-> TRUE, if_dirty |-> "ignore"]

InitExec ==
    /\ req = ExecReq
    /\ fileState \in FileStates
    /\ dirty = {}
    /\ annexed \in AnnexedSets
    /\ pc = "exec"
    /\ dpc = "enter"
    /\ running = FALSE
    /\ content_by_ds = <<>>
    /\ unavailable_paths = <<>>
    /\ todo = {}
    /\ call \in ExecCalls
    /\ results = <<>>
    /\ respath_by_status = <<>>
    /\ i = 1
    /\ events = <<>>
    /\ run = 1
    /\ prev = <<>>

\* the generator returned by _drop_files is exhausted
ExecEnd ==
    /\ running
    /\ pc = "exec"
    /\ dpc = "idle"
    /\ pc' = "done"
    /\ running' = FALSE
    /\ UNCHANGED <<req, fileState, dirty, annexed, dpc, content_by_ds,
                   unavailable_paths, todo, call, results, respath_by_status,
                   i, events, run, prev>>

NextExec ==
    \/ Pull
    \/ Close
    \/ NoAnnexYield
    \/ NoAnnexReturn
    \/ StoreDrop
    \/ YieldStoreResult
    \/ NoinfoYield
    \/ DropFilesReturn
    \/ ExecEnd

SpecExec == InitExec /\ [][NextExec]_vars

(***************************************************************************)
(* Specification: the same request run again                               *)
(***************************************************************************)
\* a fresh call with the arguments of the finished one
Rerun ==
    /\ pc = "done"
    /\ run < MaxRuns
    /\ run' = run + 1
    /\ prev' = events
    /\ pc' = "prep"
    /\ dpc' = "idle"
    /\ running' = FALSE
    /\ content_by_ds' = <<>>
    /\ unavailable_paths' = <<>>
    /\ todo' = {}
    /\ call' = NoCall
    /\ results' = <<>>
    /\ respath_by_status' = <<>>
    /\ i' = 1
    /\ events' = <<>>
    /\ UNCHANGED <<req, fileState, dirty, annexed>>

InitRerun ==
    /\ Init
    /\ req.if_dirty # "fail"
    /\ ~req.recursive

NextRerun == Next \/ Rerun

SpecRerun == InitRerun /\ [][NextRerun]_vars

(***************************************************************************)
(* Specification: one top-level call, the consumer keeps pulling           *)
(***************************************************************************)
NextLive ==
    \/ Pull
    \/ Prep
    \/ YieldUnavailable
    \/ UnavailableEnd
    \/ HandleDirty
    \/ NextDataset
    \/ DatasetsEnd
    \/ NoAnnexYield
    \/ NoAnnexReturn
    \/ StoreDrop
    \/ YieldStoreResult
    \/ NoinfoYield
    \/ DropFilesReturn

\* the consumer asks for the next record as long as the stream has not
\* ended, and the code of a generator runs on to its next yield
InitLive == Init /\ fileState[FileB] = "safe"

SpecLive == InitLive /\ [][NextLive]_vars /\ WF_vars(NextLive)

(***************************************************************************)
(* Reading the history                                                     *)
(***************************************************************************)
Yields == SelectSeq(events, LAMBDA e : e.ev = "yield")

Drops == SelectSeq(events, LAMBDA e : e.ev = "drop")

Guards == SelectSeq(events, LAMBDA e : e.ev = "guard")

Pulls == SelectSeq(events, LAMBDA e : e.ev = "pull")

RecordPaths == LET Y == Yields IN {Y[k].rec.path : k \in 1..Len(Y)}

CountPath(p) ==
    LET Y == Yields IN Cardinality({k \in 1..Len(Y) : Y[k].rec.path = p})

\* the files every store call of this run reported as dropped
Confirmed == LET D == Drops IN UNION {D[k].dropped : k \in 1..Len(D)}

(***************************************************************************)
(* C1                                                                      *)
(***************************************************************************)
\* C1, as stated: when the stream has ended normally, every requested path
\* is the path of exactly one record and the set of record paths equals
\* the set of requested paths.
C1_SetEquality ==
    pc = "done" =>
        /\ \A p \in req.path : CountPath(p) = 1
        /\ RecordPaths = req.path

\* C1, amended: when the stream has ended normally, every requested path is
\* the path of exactly one record; every other record is about a path
\* inside a directory that was requested (a file the store reported on, the
\* root of a subdataset reached by recursion).
C1_EveryRequestedPathOnce ==
    pc = "done" =>
        /\ \A p \in req.path : CountPath(p) = 1
        /\ \A q \in RecordPaths \ req.path :
               \E p \in EffectivePath : isdir(p) /\ IsPrefix(p, q)

C1_Witness ==
    /\ pc = "done"
    /\ req.path = {Missing1, SubDir}
    /\ RecordPaths = {Missing1, SubDir, FileB}

(***************************************************************************)
(* C2                                                                      *)
(***************************************************************************)
\* C2: a record with status ok was yielded from a result of the store's drop
\* call, for a file that call reported as dropped; no record made by
\* Drop.__call__ or _drop_files themselves has status ok.
C2_OkOnlyFromStore ==
    LET Y == Yields
    IN  \A k \in 1..Len(Y) :
            Y[k].rec.status = "ok" =>
                /\ Y[k].kind = "store"
                /\ Y[k].rec.path \in Confirmed

C2_Witness ==
    /\ pc = "done"
    /\ \E k \in 1..Len(Yields) : Yields[k].rec.status = "ok"
    /\ \E k \in 1..Len(Yields) : Yields[k].kind = "unavailable"
    /\ \E k \in 1..Len(Yields) : Yields[k].kind = "noinfo"

(***************************************************************************)
(* C3                                                                      *)
(***************************************************************************)
\* C3: handle_dirty_datasets is called at most once, exactly once when the
\* stream has ended, with the keys of content_by_ds; every store call and
\* every record of a dataset comes after it.
C3_GuardOnceAndFirst ==
    /\ Len(Guards) <= 1
    /\ pc \in {"done", "aborted"} => Len(Guards) = 1
    /\ \A k \in 1..Len(Guards) : Guards[k].keys = DOMAIN content_by_ds
    /\ \A k \in 1..Len(events) :
           (events[k].ev = "drop"
              \/ (events[k].ev = "yield" /\ events[k].kind # "unavailable"))
           => \E g \in 1..(k - 1) : events[g].ev = "guard"

C3_Witness ==
    /\ pc = "done"
    /\ Len(Guards) = 1
    /\ Guards[1].keys = {TopDs, SubDs}
    /\ Len(Drops) = 2
    /\ Len(Yields) >= 3

(***************************************************************************)
(* C4                                                                      *)
(***************************************************************************)
GuardFailed ==
    /\ Len(Guards) > 0
    /\ GuardFails(Guards[1].keys, req.if_dirty, dirty)

\* C4: when handle_dirty_datasets fails under if_dirty = "fail", the call is
\* aborted: no store call was or is made, no record of a dataset was or is
\* yielded, and the stream ends by the failure, not by a normal end; the
\* call is aborted in no other case.
C4_AbortBeforeAnyDrop ==
    /\ GuardFailed =>
           /\ pc = "aborted"
           /\ ~running
           /\ Len(Drops) = 0
           /\ \A k \in 1..Len(Yields) : Yields[k].kind = "unavailable"
    /\ pc = "aborted" => GuardFailed

C4_Witness ==
    /\ pc = "aborted"
    /\ req.if_dirty = "fail"
    /\ FileC \in req.path
    /\ Len(Yields) = 1

(***************************************************************************)
(* C5                                                                      *)
(***************************************************************************)
\* C5: every store call has no option when check is true and exactly the
\* option --force when check is false.
C5_OptionsFollowCheck ==
    LET D == Drops
    IN  \A k \in 1..Len(D) :
            D[k].opts = IF req.check THEN <<>> ELSE <<"--force">>

C5_Witness ==
    /\ Len(Drops) = 2
    /\ ~req.check
    /\ Drops[1].opts = <<"--force">>
    /\ Drops[2].opts = <<"--force">>

(***************************************************************************)
(* C6                                                                      *)
(***************************************************************************)
\* C6: _drop_files on a dataset whose repo has no drop method yields one
\* record per entry of paths, in their order, each with status impossible
\* if noannex_iserror and notneeded otherwise; it calls no store and
\* yields nothing else.
C6_NoContentStore ==
    ~HasDrop(call.ds) =>
        /\ Len(Drops) = 0
        /\ Len(Yields) <= Len(call.paths)
        /\ pc = "done" => Len(Yields) = Len(call.paths)
        /\ \A k \in 1..Len(Yields) :
               /\ Yields[k].kind = "noannex"
               /\ Yields[k].rec.path = ResultPath(call.ds, call.paths[k])
               /\ Yields[k].rec.status =
                      IF call.noannex_iserror THEN "impossible"
                      ELSE "notneeded"

C6_Witness ==
    /\ pc = "done"
    /\ ~HasDrop(call.ds)
    /\ call.noannex_iserror
    /\ call.paths = <<FileC, <<"c.dat">> >>
    /\ Len(Yields) = 2
    /\ Yields[2].rec.status = "impossible"

(***************************************************************************)
(* C7                                                                      *)
(***************************************************************************)
\* _prep has run
Prepared == pc # "prep" /\ events # <<>>

\* C7: a requested path that does not exist is in unavailable_paths and in
\* no list of content_by_ds, is in the arguments of no store call, gets
\* exactly one record, with status notneeded and the message
\* "path does not exist: %s" taking the path, and does not abort the call.
C7_MissingPaths ==
    /\ \A p \in req.path :
           ~lexists(p) =>
               /\ \A d \in DOMAIN content_by_ds : p \notin Range(content_by_ds[d])
               /\ LET D == Drops
                  IN  \A k \in 1..Len(D) : p \notin Range(D[k].paths)
               /\ LET Y == Yields
                  IN  \A k \in 1..Len(Y) :
                          Y[k].rec.path = p =>
                              /\ Y[k].kind = "unavailable"
                              /\ Y[k].rec.status = "notneeded"
                              /\ Y[k].rec.message =
                                     <<"path does not exist: %s", p>>
               /\ Prepared =>
                      (CountPath(p) = 0 <=> p \in Range(unavailable_paths))
               /\ CountPath(p) <= 1
               /\ pc \in {"done", "aborted"} => CountPath(p) = 1
    /\ (\A p \in req.path : ~lexists(p)) /\ req.path # {} => pc # "aborted"

C7_Witness ==
    /\ pc = "done"
    /\ req.path = {Missing1, FileA}
    /\ Len(Drops) = 1
    /\ CountPath(Missing1) = 1

(***************************************************************************)
(* C8                                                                      *)
(***************************************************************************)
PrevDrops == SelectSeq(prev, LAMBDA e : e.ev = "drop")

\* the files the store reported as dropped in the previous call
PrevConfirmed == UNION {PrevDrops[k].dropped : k \in 1..Len(PrevDrops)}

Before(k, ev) == {n \in 1..(k - 1) : events[n].ev = ev}

\* C9: content that was dropped stays dropped, also when the consumer stops;
\* content changes only in a store call on the file's own dataset; a store
\* call on a dataset is made while the consumer waits for the record that
\* follows all records yielded so far, the next record is one of that
\* dataset, and once the consumer has stopped no store call was made on a
\* dataset still to come.
C9_Cancellation ==
    /\ [](/\ \A k \in 1..Len(events) :
               events[k].ev = "drop" =>
                   /\ Cardinality(Before(k, "pull"))
                          = Cardinality(Before(k, "yield")) + 1
                   /\ \A n \in Before(k, "yield") : events[n].ds # events[k].ds
                   /\ k < Len(events) =>
                          /\ events[k + 1].ev = "yield"
                          /\ events[k + 1].ds = events[k].ds
          /\ pc = "closed" =>
                 \A k \in 1..Len(Drops) : Drops[k].ds \notin todo)
    /\ [][/\ \A f \in Files :
               fileState[f] = "absent" => fileState'[f] = "absent"
          /\ pc' = "closed" => fileState' = fileState
          /\ \A f \in Files :
               fileState'[f] # fileState[f] =>
                   /\ running
                   /\ Len(events') = Len(events) + 1
                   /\ events'[Len(events')].ev = "drop"
                   /\ events'[Len(events')].ds = DsOf(f)]_vars

C9_Witness ==
    /\ pc = "closed"
    /\ Len(Drops) = 1
    /\ Drops[1].dropped = {FileA}
    /\ fileState[FileA] = "absent"
    /\ todo = {SubDs}
    /\ HasDrop(SubDs)
    /\ fileState[FileC] = "safe"

(***************************************************************************)
(* C10                                                                     *)
(***************************************************************************)
\* C10: in the stream, no record of an unavailable path comes after a
\* record of a dataset.
C10_UnavailableFirst ==
    LET Y == Yields
    IN  \A j, k \in 1..Len(Y) :
            j < k /\ Y[k].kind = "unavailable" => Y[j].kind = "unavailable"

C10_Witness ==
    /\ pc = "done"
    /\ req.path = {Missing1, Missing2, SubDs} \/ req.path = {Missing2, SubDs}
    /\ Yields[1].kind = "unavailable"
    /\ Yields[Len(Yields)].kind \in {"noinfo", "noannex"}

(***************************************************************************)
(* C11                                                                     *)
(***************************************************************************)
\* the files a store call of this run refused to drop: check is the same for
\* the whole run, so a file that is the only copy stays so
Refused ==
    LET D == Drops
    IN  UNION {{f \in {g \in Files : fileState[g] = "last"} :
                   f \in Covered(D[k].ds, D[k].paths)} :
               k \in {n \in 1..Len(D) : D[n].opts = <<>>}}

\* C11: a file the store refuses to drop gets one record, with status
\* error, yielded from the store's result; the call is not aborted after a
\* store call; when the stream has ended every dataset of content_by_ds was
\* handled, every path of every group has a record, and no dataset got a
\* second store call.
C11_StoreFailureIsARecord ==
    LET Y == Yields
        D == Drops
        R == Refused
        Count(p) == Cardinality({k \in 1..Len(Y) : Y[k].rec.path = p})
    IN  /\ \A k \in 1..Len(Y) :
               Y[k].rec.path \in R =>
                   Y[k].kind = "store" /\ Y[k].rec.status = "error"
        /\ \A k \in 1..Len(Y) : Y[k].rec.status = "error" => Y[k].rec.path \in R
        /\ pc = "aborted" => Len(D) = 0
        /\ \A j, k \in 1..Len(D) : D[j].ds = D[k].ds => j = k
        /\ pc = "done" =>
               /\ \A f \in R : Count(f) = 1
               /\ todo = {}
               /\ \A d \in DOMAIN content_by_ds :
                      /\ HasDrop(d) => \E k \in 1..Len(D) : D[k].ds = d
                      /\ \A p \in Range(content_by_ds[d]) : Count(p) = 1

C11_Witness ==
    /\ pc = "done"
    /\ req.check
    /\ req.path = {FileA, FileC}
    /\ Len(Yields) = 2
    /\ Yields[1].rec.path = FileA
    /\ Yields[1].rec.status = "error"
    /\ Yields[2].rec.path = FileC
    /\ Yields[2].rec.status = "ok"

(***************************************************************************)
(* C12                                                                     *)
(***************************************************************************)
\* the positions of Drop.__call__ in the order Start, Grouping, GuardCheck,
\* PerDatasetDrop, Done
PhaseSteps ==
    {<<"prep", "unavail">>, <<"unavail", "guard">>, <<"guard", "datasets">>,
     <<"guard", "aborted">>, <<"datasets", "done">>}

\* the datasets that have records in the stream
DatasetsReported ==
    {Yields[k].ds : k \in {n \in 1..Len(Yields) : Yields[n].kind # "unavailable"}}

\* C12: with a consumer that keeps pulling, the call ends, and ends
\* normally unless handle_dirty_datasets failed; it goes through its
\* positions in the order of PhaseSteps; when it has ended normally every
\* dataset of content_by_ds was handled and nothing but the consumer's last
\* pull comes after the last record of the last dataset (after the guard
\* when there is no dataset); datasets are saved by
\* handle_dirty_datasets only, and nothing happens after the end.
C12_ReachesDone ==
    /\ <>(pc \in {"done", "aborted"})
    /\ [](pc = "aborted" => GuardFailed)
    /\ [][pc' # pc => <<pc, pc'>> \in PhaseSteps]_vars
    /\ [](pc = "done" =>
            /\ todo = {}
            /\ DatasetsReported = DOMAIN content_by_ds
            /\ Len(events) >= 2
            /\ content_by_ds = <<>> => events[Len(events)].ev = "guard"
            /\ content_by_ds # <<>> =>
                   /\ events[Len(events)].ev = "pull"
                   /\ events[Len(events) - 1].ev = "yield"
                   /\ events[Len(events) - 1].kind # "unavailable")
    /\ [][dirty' # dirty => pc = "guard"]_vars
    /\ [][pc # "done"]_vars

C12_Witness ==
    /\ pc = "done"
    /\ DOMAIN content_by_ds = {TopDs, SubDs, DeepDs}
    /\ Len(Drops) = 3
    /\ dirty = {}

(***************************************************************************)
(* C13                                                                     *)
(***************************************************************************)
\* the pairs <<dataset, path>> of content_by_ds
Grouped ==
    UNION {{<<d, content_by_ds[d][k]>> : k \in 1..Len(content_by_ds[d])} :
           d \in DOMAIN content_by_ds}

\* the requested paths below which dataset d lies, with the number of
\* dataset boundaries between the path's own dataset and d
DescentsTo(d) ==
    {<<q, Cardinality({e \in {SubDs, DeepDs} :
                          IsPrefix(e, d) /\ Len(e) > Len(q)})>> :
        q \in {r \in EffectivePath \cap Dirs : IsPrefix(r, d) /\ r # d}}

\* what holds of the groups whatever reading of "path of a sub-dataset" is
\* taken: entries that were not requested are roots of sub-datasets found by
\* descent within the limit, and what was left out is silently out of scope
BoundOfDescent ==
    /\ \A dp \in Grouped :
           dp[2] \notin EffectivePath =>
               /\ req.recursive
               /\ dp[2] = dp[1]
               /\ \E qn \in DescentsTo(dp[1]) :
                      req.recursion_limit = None \/ qn[2] <= req.recursion_limit[1]
    /\ req.recursive /\ req.recursion_limit = <<1>> /\ EffectivePath = {TopDs} =>
           DOMAIN content_by_ds = {TopDs, SubDs}
    /\ req.recursive /\ req.recursion_limit = <<1>> /\ EffectivePath = {SubDs} =>
           DOMAIN content_by_ds = {SubDs, DeepDs}
    /\ req.recursive /\ req.recursion_limit = None /\ TopDs \in EffectivePath =>
           DOMAIN content_by_ds = Datasets
    /\ LET Y == Yields
       IN  /\ \A k \in 1..Len(Y) :
                  Y[k].kind = "unavailable" =>
                      Y[k].rec.path \in {Missing1, Missing2} \cap EffectivePath
           /\ DeepDs \notin DOMAIN content_by_ds =>
                  /\ \A k \in 1..Len(Y) : Y[k].rec.path \notin {DeepDs, FileD}
                  /\ fileState[FileD] = "safe"

RecordsOf(d, p, k) ==
    LET Y == Yields
    IN  {n \in 1..Len(Y) : Y[n].ds = d /\ Y[n].kind = k /\ Y[n].rec.path = p}

\* C14: of a dataset with an annex, a requested path the store gave a result
\* for gets no record from results_from_annex_noinfo, and every other
\* requested path gets exactly one: status impossible with the message
\* "could not drop some content in <dataset> <path>" for a directory,
\* status notneeded otherwise; results_from_annex_noinfo gives records for
\* requested paths only.
C14_NoinfoRecords ==
    LET Y == Yields
        Of(d, p, k) ==
            {n \in 1..Len(Y) :
                Y[n].ds = d /\ Y[n].kind = k /\ Y[n].rec.path = p}
    IN  /\ \A n \in 1..Len(Y) :
               Y[n].kind = "noinfo" =>
                   /\ Y[n].ds \in DOMAIN content_by_ds
                   /\ HasDrop(Y[n].ds)
                   /\ Y[n].rec.path \in Range(content_by_ds[Y[n].ds])
                   /\ Of(Y[n].ds, Y[n].rec.path, "store") = {}
                   /\ Cardinality(Of(Y[n].ds, Y[n].rec.path, "noinfo")) = 1
                   /\ IF Y[n].rec.path \in Dirs
                      THEN /\ Y[n].rec.status = "impossible"
                           /\ Y[n].rec.message =
                                  <<"could not drop some content in %s %s",
                                    Y[n].ds, Y[n].rec.path>>
                      ELSE Y[n].rec.status = "notneeded"
        /\ pc = "done" =>
               \A d \in DOMAIN content_by_ds : \A p \in Range(content_by_ds[d]) :
                   HasDrop(d) =>
                       Cardinality(Of(d, p, "noinfo")) =
                           (IF Of(d, p, "store") = {} THEN 1 ELSE 0)

C14_Witness ==
    /\ pc = "done" /\ req.path = {FileA, SubDir}
    /\ Len(Yields) = 3
    /\ Yields[1].kind = "store" /\ Yields[1].rec.path = FileB
    /\ Yields[2].kind = "noinfo" /\ Yields[2].rec.path = FileA
    /\ Yields[2].rec.status = "notneeded"
    /\ Yields[3].kind = "noinfo" /\ Yields[3].rec.path = SubDir
    /\ Yields[3].rec.status = "impossible"

(***************************************************************************)
(* C15                                                                     *)
(***************************************************************************)
\* the events that belong to the handling of one dataset
OfDataset(e) == e.ev \in {"yield", "drop"} /\ e.ds # None

\* C15: among the records of one dataset no record made from a result of
\* ds.repo.drop comes after a record of results_from_annex_noinfo, so the
\* impossible record of a directory comes after the records of the files
\* of that dataset in it; and the drop call and the records of one dataset are not
\* interleaved with those of another: the drop call of a dataset comes
\* before all its records and after all records of the datasets handled
\* before it.
C15_StoreThenNoinfoPerDataset ==
    LET Y == Yields
        E == SelectSeq(events, OfDataset)
    IN  /\ \A j, k \in 1..Len(Y) :
               /\ j < k
               /\ Y[j].ds = Y[k].ds
               /\ Y[j].kind = "noinfo"
               => Y[k].kind = "noinfo"
        /\ \A j, k \in 1..Len(Y) :
               /\ Y[k].kind = "noinfo"
               /\ Y[k].rec.status = "impossible"
               /\ Y[j].kind = "store"
               /\ Y[j].ds = Y[k].ds
               /\ IsPrefix(Y[k].rec.path, Y[j].rec.path)
               => j < k
        /\ \A a, b \in 1..Len(E) :
               a < b /\ E[a].ds = E[b].ds => E[a + 1].ds = E[a].ds
        /\ \A a, b \in 1..Len(E) :
               /\ E[a].ev = "yield" /\ E[b].ev = "drop"
               /\ E[a].ds = E[b].ds
               => b < a

C15_Witness ==
    /\ pc = "done"
    /\ Len(Yields) = 4
    /\ Yields[1].kind = "store" /\ Yields[2].kind = "noinfo"
    /\ Yields[2].rec.status = "impossible"
    /\ IsPrefix(Yields[2].rec.path, Yields[1].rec.path)
    /\ Yields[3].kind = "store" /\ Yields[4].kind = "noinfo"
    /\ Yields[1].ds # Yields[3].ds

(***************************************************************************)
(* C16                                                                     *)
(***************************************************************************)
\* C16: ds.repo.drop is called at most once per dataset, only for keys of
\* content_by_ds that have an annex, and, when the call has ended normally,
\* exactly once for each of them; results of a call are outstanding only
\* while _drop_files of that dataset is in its loop over them, so a call
\* starts only when the one before has given all its results.
C16_OneDropCallPerDataset ==
    LET D == Drops
    IN  /\ \A j, k \in 1..Len(D) : D[j].ds = D[k].ds => j = k
        /\ \A k \in 1..Len(D) :
               /\ D[k].ds \in DOMAIN content_by_ds
               /\ D[k].ds \in annexed
               /\ D[k].ds \notin todo
               /\ D[k].paths = content_by_ds[D[k].ds]
        /\ pc = "done" =>
               {D[k].ds : k \in 1..Len(D)} = DOMAIN content_by_ds \cap annexed
        /\ results # <<>> =>
               /\ dpc = "store"
               /\ Len(D) > 0
               /\ D[Len(D)].ds = call.ds
        /\ dpc \in {"idle", "enter"} => results = <<>>

C16_Witness ==
    /\ pc = "done"
    /\ DOMAIN content_by_ds = {TopDs, SubDs}
    /\ annexed = Datasets \ {SubDs}
    /\ Len(Drops) = 1
    /\ Drops[1].ds = TopDs
    /\ Drops[1].dropped # {}

(***************************************************************************)
(* C17                                                                     *)
(***************************************************************************)
\* C17: Drop.__call__ never passes noannex_iserror, so every call of
\* _drop_files has it false; every record of a dataset without an annex is
\* the record of the no-annex branch with status notneeded and the message
\* "no annex'ed content", never impossible; when the call has ended
\* normally every path grouped under such a dataset has exactly one such
\* record.
C17_NoAnnexIsNeverAnError ==
    LET Y == Yields
    IN  /\ ~call.noannex_iserror
        /\ \A k \in 1..Len(Y) :
               Y[k].kind = "noannex" \/ (Y[k].ds # None /\ Y[k].ds \notin annexed)
               => /\ Y[k].kind = "noannex"
                  /\ Y[k].ds \notin annexed
                  /\ Y[k].rec.status = "notneeded"
                  /\ Y[k].rec.message = <<"no annex'ed content">>
        /\ pc = "done" =>
               \A d \in DOMAIN content_by_ds \ annexed :
                   \A p \in Range(content_by_ds[d]) :
                       Cardinality(RecordsOf(d, p, "noannex")) = 1

C17_Witness ==
    /\ pc = "done"
    /\ annexed = Datasets \ {SubDs}
    /\ req.path = {FileC}
    /\ Len(Yields) = 1
    /\ Yields[1].kind = "noannex"
    /\ Yields[1].rec.path = FileC
    /\ Yields[1].rec.status = "notneeded"

(***************************************************************************)
(* C18                                                                     *)
(***************************************************************************)
\* the requested paths that do not exist
MissingRequested == {p \in EffectivePath : ~lexists(p)}

\* C18: handle_dirty_datasets runs only when every requested path that does
\* not exist has had its record and the consumer has asked for the record
\* after them; as long as the consumer has not asked that often, no guard
\* has run and no store was called, also when the consumer has stopped; and
\* when the guard has failed the records given are exactly those of the
\* missing requested paths, one each, with status notneeded.
C18_GuardAfterUnavailablePulled ==
    LET Y == Yields
    IN  /\ \A g \in 1..Len(events) :
               events[g].ev = "guard" =>
                   /\ Cardinality(Before(g, "yield")) =
                          Cardinality(MissingRequested)
                   /\ Cardinality(Before(g, "pull")) =
                          Cardinality(MissingRequested) + 1
                   /\ \A n \in Before(g, "yield") :
                          /\ events[n].kind = "unavailable"
                          /\ events[n].rec.path \in MissingRequested
        /\ Len(Pulls) <= Cardinality(MissingRequested) =>
               /\ Len(Guards) = 0
               /\ Len(Drops) = 0
               /\ \A k \in 1..Len(Y) : Y[k].kind = "unavailable"
        /\ pc = "aborted" =>
               /\ Len(Y) = Cardinality(MissingRequested)
               /\ \A p \in MissingRequested : CountPath(p) = 1
               /\ \A k \in 1..Len(Y) :
                      /\ Y[k].kind = "unavailable"
                      /\ Y[k].rec.status = "notneeded"
                      /\ Y[k].rec.path \in MissingRequested

C18_Witness ==
    /\ pc = "closed"
    /\ req.path = {Missing1, FileC}
    /\ req.if_dirty = "save-before"
    /\ dirty = {SubDs}
    /\ Len(Yields) = 1
    /\ Len(Pulls) = 1
    /\ Len(Guards) = 0

====
